---------------------------- MODULE Spec2Model ----------------------------
(***************************************************************************)
(* Collision response of rigid spheres (src/hw1/src/sphere.cpp):           *)
(* Spheres::addSphere, Spheres::collide() and the cloth overload of        *)
(* Spheres::collide.                                                       *)
(*                                                                         *)
(* A float is modelled as an exact rational <<n, d>> in lowest terms with  *)
(* d >= 0.  d = 0 holds the non-finite IEEE values: <<1,0>> is +inf,       *)
(* <<-1,0>> is -inf and <<0,0>> is NaN.  The arithmetic is exact; a value   *)
(* kept in a float variable is exact while its denominator is at most      *)
(* Precision and is rounded to a multiple of 1 / Precision otherwise, and  *)
(* an irrational square root is rounded likewise.  An Eigen::Vector4f is a *)
(* 4-tuple of floats.                                                      *)
(***************************************************************************)
EXTENDS Integers, Sequences, FiniteSets, TLC

(***************************************************************************)
(* Bounds of the model.                                                    *)
(***************************************************************************)
\* number of spheres of a drawn scene (SpecCollide, SpecCloth)
MaxSpheres == 3
\* number of calls of a run: addSphere and the two collide overloads
MaxOps == 4

\* the precision of a float: a denominator up to Precision is kept exactly
Precision == 8192

(***************************************************************************)
(* Float arithmetic.                                                       *)
(***************************************************************************)
Abs(n) == IF n < 0 THEN -n ELSE n

Sign(n) == IF n < 0 THEN -1 ELSE IF n > 0 THEN 1 ELSE 0

RECURSIVE GCD(_, _)
GCD(a, b) == IF b = 0 THEN a ELSE GCD(b, a % b)

LCM(a, b) == (a \div GCD(a, b)) * b

\* n / d in lowest terms, g the greatest common divisor of n and d
Lowest(n, d, g) ==
  IF d < 0 THEN <<(-n) \div g, (-d) \div g>> ELSE <<n \div g, d \div g>>

\* the float n/d
Q(n, d) ==
  IF d = 0 THEN <<Sign(n), 0>> ELSE Lowest(n, d, GCD(Abs(n), Abs(d)))

NaN == <<0, 0>>
Inf == <<1, 0>>
Zero == <<0, 1>>
One == <<1, 1>>

IsNaN(x) == x = NaN

\* the multiple of 1 / p next below the finite float x
Grid(x, p) ==
  LET whole == x[1] \div x[2]
      frac == x[1] % x[2]
      k == x[2] \div 131072 + 1
  IN  Q(whole * p + ((frac \div k) * p) \div (x[2] \div k), p)

\* the float a variable keeps of the value x
Fl(x) == IF x[2] <= Precision THEN x ELSE Grid(x, Precision)

\* the sum of two floats of the grid of 1 / Precision
GridSum(x, y) ==
  Q(x[1] * (Precision \div x[2]) + y[1] * (Precision \div y[2]), Precision)

\* the sum of two finite floats whose least common denominator is l: exact
\* while l is within the precision, and the sum of the two rounded terms
\* otherwise
Sum(x, y, l) ==
  IF l <= Precision THEN Q(x[1] * (l \div x[2]) + y[1] * (l \div y[2]), l)
  ELSE GridSum(Grid(x, Precision), Grid(y, Precision))

\* x + y
QAdd(x, y) ==
  IF x[2] = 0 /\ y[2] = 0 THEN (IF x[1] = y[1] THEN x ELSE NaN)
  ELSE IF x[2] = 0 THEN x
  ELSE IF y[2] = 0 THEN y
  ELSE IF x[1] = 0 THEN y
  ELSE IF y[1] = 0 THEN x
  ELSE Sum(x, y, LCM(x[2], y[2]))

QNeg(x) == <<-x[1], x[2]>>

QSub(x, y) == QAdd(x, QNeg(y))

\* x * y, g1 and g2 the common divisors across the two fractions
Cancelled(x, y, g1, g2) ==
  <<(x[1] \div g1) * (y[1] \div g2), (x[2] \div g2) * (y[2] \div g1)>>

\* the product of two finite floats, none of them 0
Product(x, y) == Cancelled(x, y, GCD(Abs(x[1]), y[2]), GCD(Abs(y[1]), x[2]))

\* the numerator and the denominator of x are small enough to be multiplied
Short(x) == Abs(x[1]) <= 46340 /\ x[2] <= 46340

\* x * y: exact while the terms are short, and the product of the two
\* rounded terms otherwise
QMul(x, y) ==
  IF x[2] = 0 \/ y[2] = 0 THEN <<Sign(x[1]) * Sign(y[1]), 0>>
  ELSE IF x[1] = 0 \/ y[1] = 0 THEN Zero
  ELSE IF Short(x) /\ Short(y) THEN Product(x, y)
  ELSE Product(Grid(x, 256), Grid(y, 256))

\* 1 / x
Recip(x) == IF x[1] < 0 THEN <<-x[2], -x[1]>> ELSE <<x[2], x[1]>>

QDiv(x, y) == QMul(x, Recip(y))

\* x <= y (false when either is NaN)
QLeq(x, y) ==
  IF IsNaN(x) \/ IsNaN(y) THEN FALSE
  ELSE IF x[2] = 0 /\ y[2] = 0 THEN x[1] <= y[1]
  ELSE IF x[2] = 0 THEN x[1] < 0
  ELSE IF y[2] = 0 THEN y[1] > 0
  ELSE IF x[1] \div x[2] # y[1] \div y[2] THEN x[1] \div x[2] < y[1] \div y[2]
  ELSE (x[1] % x[2]) * y[2] <= (y[1] % y[2]) * x[2]

\* x < y (false when either is NaN)
QLt(x, y) == QLeq(x, y) /\ x # y

\* fabs
QAbs(x) == <<Abs(x[1]), x[2]>>

RECURSIVE ISqrtIter(_, _, _)
ISqrtIter(n, lo, hi) ==
  IF lo >= hi THEN lo
  ELSE LET mid == (lo + hi + 1) \div 2
       IN  IF mid <= n \div mid THEN ISqrtIter(n, mid, hi)
           ELSE ISqrtIter(n, lo, mid - 1)

\* floor of the square root of a natural number
ISqrt(n) == IF n <= 0 THEN 0 ELSE ISqrtIter(n, 1, IF n < 46340 THEN n ELSE 46340)


\* sqrtf of the natural number n, root the floor of its square root: exact
\* when n is a square, else rounded down
Rooted(n, root) ==
  IF root * root = n THEN <<root, 1>>
  ELSE IF n < 512 THEN Q(ISqrt(n * 4194304), 2048)
  ELSE IF n < 524288 THEN Q(ISqrt(n * 4096), 64)
  ELSE <<root, 1>>

SqrtNat(n) == Rooted(n, ISqrt(n))

(***************************************************************************)
(* Eigen::Vector4f.                                                        *)
(***************************************************************************)
VZero == <<Zero, Zero, Zero, Zero>>

VAdd(a, b) == <<QAdd(a[1], b[1]), QAdd(a[2], b[2]), QAdd(a[3], b[3]), QAdd(a[4], b[4])>>

VNeg(a) == <<QNeg(a[1]), QNeg(a[2]), QNeg(a[3]), QNeg(a[4])>>

VSub(a, b) == VAdd(a, VNeg(b))

\* the Vector4f a variable keeps of the value a
VFl(a) == <<Fl(a[1]), Fl(a[2]), Fl(a[3]), Fl(a[4])>>

\* vector * scalar
VScale(a, s) == <<QMul(a[1], s), QMul(a[2], s), QMul(a[3], s), QMul(a[4], s)>>

\* vector / scalar
VDivS(a, s) == VScale(a, Recip(s))

Dot(a, b) ==
  QAdd(QAdd(QMul(a[1], b[1]), QMul(a[2], b[2])),
       QAdd(QMul(a[3], b[3]), QMul(a[4], b[4])))

\* cross3: the cross product of the first three coefficients, w = 0
Cross3(a, b) ==
  <<QSub(QMul(a[2], b[3]), QMul(a[3], b[2])),
    QSub(QMul(a[3], b[1]), QMul(a[1], b[3])),
    QSub(QMul(a[1], b[2]), QMul(a[2], b[1])),
    Zero>>

Max(a, b) == IF a < b THEN b ELSE a

\* A finite vector a is written (h / d) * f * c for an integer vector c and
\* naturals h, d, f: c is in lowest terms and f = 1, unless a coefficient of
\* c would exceed 16000, and then c is rounded to multiples of f.
\* The numerators of a over the common denominator d
Numerators(a, d) ==
  <<a[1][1] * (d \div a[1][2]), a[2][1] * (d \div a[2][2]),
    a[3][1] * (d \div a[3][2]), a[4][1] * (d \div a[4][2])>>

NonZero(g) == IF g = 0 THEN 1 ELSE g

\* the greatest common divisor of the coefficients of n (1 when all are 0)
Content(n) == NonZero(GCD(GCD(Abs(n[1]), Abs(n[2])), GCD(Abs(n[3]), Abs(n[4]))))

Largest(n) == Max(Max(Abs(n[1]), Abs(n[2])), Max(Abs(n[3]), Abs(n[4])))

\* n / (h * f), each coefficient rounded toward 0
Shrunk(n, h, f) ==
  <<Sign(n[1]) * ((Abs(n[1]) \div h) \div f), Sign(n[2]) * ((Abs(n[2]) \div h) \div f),
    Sign(n[3]) * ((Abs(n[3]) \div h) \div f), Sign(n[4]) * ((Abs(n[4]) \div h) \div f)>>

SquareSum(c) == c[1] * c[1] + c[2] * c[2] + c[3] * c[3] + c[4] * c[4]

\* s = c . c and root = floor(sqrt(s))
PartsRooted(h, d, f, c, s, root) ==
  [h |-> h, d |-> d, f |-> f, c |-> c, s |-> s, root |-> root,
   exact |-> f = 1 /\ root * root = s]

PartsSquared(h, d, f, c, s) == PartsRooted(h, d, f, c, s, ISqrt(s))

PartsShrunk(h, d, f, c) == PartsSquared(h, d, f, c, SquareSum(c))

PartsScaled(n, d, h, f) == PartsShrunk(h, d, f, Shrunk(n, h, f))

PartsDivided(n, d, h) == PartsScaled(n, d, h, (Largest(n) \div h) \div 16000 + 1)

PartsOver(n, d) == PartsDivided(n, d, Content(n))

PartsWithin(a, d) == PartsOver(Numerators(a, d), d)

NormParts(a) == PartsWithin(a, LCM(LCM(a[1][2], a[2][2]), LCM(a[3][2], a[4][2])))

\* (h / d) * f * sqrt(s)
NormOf(p) ==
  IF p.exact THEN QMul(<<p.root, 1>>, Q(p.h, p.d))
  ELSE QMul(QMul(SqrtNat(p.s), <<p.f, 1>>), Q(p.h, p.d))

\* norm() of a finite vector
FiniteNorm(a) == NormOf(NormParts(a))

\* norm(): NaN if a coefficient is NaN, else +inf if one is infinite
Norm(a) ==
  IF a[1][2] > 0 /\ a[2][2] > 0 /\ a[3][2] > 0 /\ a[4][2] > 0 THEN FiniteNorm(a)
  ELSE IF \E k \in 1..4 : IsNaN(a[k]) THEN NaN
  ELSE Inf

\* a coefficient of a finite vector over its norm: c / sqrt(s), exact when
\* the root is rational and rounded to a multiple of 1 / Precision otherwise
UnitCoefficient(p, k) ==
  IF p.exact THEN Q(p.c[k], p.root)
  ELSE Q(Sign(p.c[k]) * ((Abs(p.c[k]) * Precision) \div p.root), Precision)

\* a vector of norm 0 is returned as it is
UnitOf(a, p) ==
  IF p.s = 0 THEN a
  ELSE <<UnitCoefficient(p, 1), UnitCoefficient(p, 2),
         UnitCoefficient(p, 3), UnitCoefficient(p, 4)>>

\* normalized() of a finite vector
FiniteNormalized(a) == UnitOf(a, NormParts(a))

\* normalized(): a vector whose norm is NaN is returned as it is
Normalized(a) ==
  IF a[1][2] > 0 /\ a[2][2] > 0 /\ a[3][2] > 0 /\ a[4][2] > 0 THEN FiniteNormalized(a)
  ELSE IF \E k \in 1..4 : IsNaN(a[k]) THEN a
  ELSE VDivS(a, Inf)

(***************************************************************************)
(* Constants of configs.h and of the two collide overloads.                *)
(***************************************************************************)
\* configs.h: the fixed time step
deltaTime == Q(1, 2)

\* configs.h: the friction coefficient
frictionCoef == Q(1, 4)

\* configs.h: the density of a sphere
sphereDensity == One

\* configs.h: the cloth has particlesPerEdge * particlesPerEdge particles
particlesPerEdge == 2

\* coefRestitution of Spheres::collide()
coefRestitution == Q(4, 5)

\* the share of the penetration each body is pushed back by
correctionFactor == Q(3, 20)

\* (float)2 / 5 of the moment of inertia of a solid sphere
inertiaFactor == Q(2, 5)

(***************************************************************************)
(* The state: the Spheres object, the Cloth it collides with, the position *)
(* of the running call, and what the call has done so far.                 *)
(***************************************************************************)
VARIABLES
  sphereCount,  \* Spheres::sphereCount
  capacity,     \* _particles.getCapacity()
  _radius,      \* std::vector<float> _radius, indexed from 0
  position,     \* _particles.position(k)
  velocity,     \* _particles.velocity(k)
  acceleration, \* _particles.acceleration(k)
  rotation,     \* _particles.rotation(k)
  mass,         \* _particles.mass(k)
  clothPosition,\* cloth->particles().position(k)
  clothVelocity,\* cloth->particles().velocity(k)
  clothMass,    \* cloth->particles().mass(k)
  pc,           \* "collide" / "cloth": in collide() / in the cloth overload;
                \* "collided" / "clothed": that call has just returned; else "idle"
  j,            \* the outer loop's index
  i,            \* the inner loop's index
  start,        \* the spheres when the running (or last) call began
  examined,     \* the pairs <<j, i, applied>> the call has examined, in order
  last,         \* the pair examined last: the bodies before and after
  adds,         \* the addSphere calls made
  ops,          \* the calls made: addSphere and the two collide overloads
  lastAdd       \* what the last addSphere call found and did

vars ==
  <<sphereCount, capacity, _radius, position, velocity, acceleration, rotation,
    mass, clothPosition, clothVelocity, clothMass, pc, j, i, start, examined,
    last, adds, ops, lastAdd>>

sphereVars ==
  <<sphereCount, capacity, _radius, position, velocity, acceleration, rotation, mass>>

clothVars == <<clothPosition, clothVelocity, clothMass>>

\* _particles.inverseMass(k)
InverseMass(m) == QDiv(One, m)

\* the number of cloth particles
ClothCount == particlesPerEdge * particlesPerEdge

\* the spheres as a call finds them
Snapshot ==
  [count |-> sphereCount, radius |-> _radius, position |-> position,
   velocity |-> velocity, rotation |-> rotation, mass |-> mass]

NoPair == [kind |-> "none"]

\* no call is running
Resting == {"idle", "collided", "clothed"}

(***************************************************************************)
(* Spheres::collide(): the response to one pair (j, i) of spheres.         *)
(* b holds the two bodies: positions pj, pi, velocities vj, vi, rotations  *)
(* rj, ri, masses mj, mi and radii radj, radi.                             *)
(***************************************************************************)
\* a test that takes two spheres that only touch to be apart
SpheresOverlap(pj, pi, radj, radi) == QLt(Norm(VSub(pi, pj)), QAdd(radj, radi))

\* the test of line 189
SpheresTouch(pj, pi, radj, radi) == QLeq(Norm(VSub(pi, pj)), QAdd(radj, radi))

\* v1_after of line 194
V1After(v1, v2, m1, m2) ==
  VFl(VDivS(VAdd(VAdd(VScale(v1, m1), VScale(v2, m2)),
                 VScale(VSub(v2, v1), QMul(m2, coefRestitution))),
            QAdd(m1, m2)))

\* v2_after of line 195
V2After(v1, v2, m1, m2) ==
  VFl(VDivS(VAdd(VAdd(VScale(v1, m1), VScale(v2, m2)),
                 VScale(VSub(v1, v2), QMul(m1, coefRestitution))),
            QAdd(m1, m2)))

\* normal_force_value of lines 147 and 199
NormalForce(v1, v1_after, m) ==
  Fl(Norm(VScale(VDivS(VSub(v1_after, v1), deltaTime), m)))

\* v1 and v2 of lines 148-149 and 200-201: va is the new velocity, v the
\* old normal part
Heading(va, v) == VFl(Normalized(VSub(va, v)))

\* move_friction_1 of lines 150 and 202 (move_friction_2 with h1, h2 swapped)
MoveFriction(h1, h2, force) ==
  VFl(VScale(VScale(VSub(h2, h1), force), frictionCoef))

\* what lines 152-153, 159-160, 204-205 and 213-214 add to a velocity
Push(v, f, m) == VFl(VAdd(v, VScale(VScale(f, deltaTime), InverseMass(m))))

\* rotate_direction of lines 155 and 207-208
RotateDirection(r, n) == VFl(Normalized(Cross3(r, n)))

\* lines 162-163 and 216-219: the rotation of a sphere after the response
Spin(r, n, f, m, rad) ==
  VFl(VAdd(r, VScale(VDivS(Cross3(n, f),
                           Fl(QMul(QMul(QMul(inertiaFactor, m), rad), rad))),
                     deltaTime)))

\* penetration of line 221
Penetration(pj, pi, radj, radi) ==
  Fl(QSub(QAdd(radj, radi), QAbs(Norm(VSub(pi, pj)))))

\* lines 166 and 222: auto correction = penetration * vec.normalized() * 0.15
\* is an expression that keeps a reference to the temporary vec.normalized()
\* returns, and the temporary is destroyed at the end of that line.  Each of
\* the two lines that follow evaluates the expression and reads through the
\* dangling reference: it finds the unit vector n still in place, or what
\* the storage has been given since
Dangling(n) == {n, VZero}

\* what an evaluation of correction yields when its read finds g
Correction(g, penetration) == VScale(VScale(g, penetration), correctionFactor)

\* lines 202-207 (150-155): the velocities after the friction of the move,
\* with what the lines after them use
Rubbed(b, n, vja, via, force, h1, h2) ==
  [n |-> n, force |-> force,
   move_friction_1 |-> MoveFriction(h1, h2, force),
   move_friction_2 |-> MoveFriction(h2, h1, force),
   vj |-> Push(vja, MoveFriction(h1, h2, force), b.mj),
   vi |-> Push(via, MoveFriction(h2, h1, force), b.mi),
   rotate_direction_1 |-> RotateDirection(b.rj, n)]

\* lines 200-201 (148-149)
Friction(b, n, v1, v2, vja, via, force) ==
  Rubbed(b, n, vja, via, force, Heading(vja, v1), Heading(via, v2))

\* lines 196-199 (144-147)
Rebound(b, n, v1, v2, v1_after, v2_after) ==
  Friction(b, n, v1, v2,
           VFl(VAdd(b.vj, VAdd(VNeg(v1), v1_after))),
           VFl(VAdd(b.vi, VAdd(VNeg(v2), v2_after))),
           NormalForce(v1, v1_after, b.mj))

\* lines 194-195
SphereImpulse(b, n, v1, v2) ==
  Rebound(b, n, v1, v2, V1After(v1, v2, b.mj, b.mi), V2After(v1, v2, b.mj, b.mi))

\* lines 191-192
SphereAlong(b, n) ==
  SphereImpulse(b, n, VFl(VScale(n, Dot(n, b.vj))), VFl(VScale(n, Dot(n, b.vi))))

\* lines 213-221: the velocities take rotate_direction, not rotate_friction
SphereSpun(b, f, rotate_direction_2) ==
  [n |-> f.n,
   penetration |-> Penetration(b.pj, b.pi, b.radj, b.radi),
   vj |-> Push(f.vj, f.rotate_direction_1, b.mj),
   vi |-> Push(f.vi, rotate_direction_2, b.mi),
   rj |-> Spin(b.rj, f.n, VAdd(f.move_friction_1, f.rotate_direction_1), b.mj, b.radj),
   ri |-> Spin(b.ri, f.n, VAdd(f.move_friction_2, rotate_direction_2), b.mi, b.radi)]

\* line 208
SphereTurned(b, f) == SphereSpun(b, f, RotateDirection(b.ri, f.n))

\* lines 190-221: the velocities and rotations of the two bodies after the
\* response, with the normal n and the penetration
SphereResponse(b) ==
  SphereTurned(b, SphereAlong(b, VFl(Normalized(VSub(b.pi, b.pj)))))

\* lines 223-224 (and 167-168): the two bodies after the response r, when
\* the read of line 223 finds gi and the read of line 224 finds gj
Corrected(b, r, gi, gj) ==
  [pj |-> VFl(VSub(b.pj, Correction(gj, r.penetration))),
   pi |-> VFl(VAdd(b.pi, Correction(gi, r.penetration))),
   vj |-> r.vj, vi |-> r.vi, rj |-> r.rj, ri |-> r.ri,
   n |-> r.n, penetration |-> r.penetration]

\* the two bodies when the test fails and the body of the if is skipped
Unmoved(b) ==
  [pj |-> b.pj, pi |-> b.pi, vj |-> b.vj, vi |-> b.vi, rj |-> b.rj,
   ri |-> IF "ri" \in DOMAIN b THEN b.ri ELSE VZero,
   n |-> VZero, penetration |-> Zero]

\* lines 222-224 (166-168) after the response v: one outcome for each pair
\* of finds of the two reads
Outcomes(b, v) ==
  {Corrected(b, v, gi, gj) : gi \in Dangling(v.n), gj \in Dangling(v.n)}

\* the outcomes of lines 190-224 for two spheres
SphereOutcomes(b) == Outcomes(b, SphereResponse(b))

\* the outcomes of the if of line 189 with the test left out
SphereStepUntested(b) == SphereOutcomes(b)

\* lines 189-225: the outcomes of the if for two spheres
SphereStep(b) ==
  IF SpheresTouch(b.pj, b.pi, b.radj, b.radi) THEN SphereOutcomes(b)
  ELSE {Unmoved(b)}

\* the bodies of the pair (a, c) of spheres
SpherePair(a, c) ==
  [pj |-> position[a], pi |-> position[c], vj |-> velocity[a], vi |-> velocity[c],
   rj |-> rotation[a], ri |-> rotation[c], mj |-> mass[a], mi |-> mass[c],
   radj |-> _radius[a], radi |-> _radius[c]]

(***************************************************************************)
(* Spheres::collide(), one action per step of its two loops.               *)
(***************************************************************************)
\* the call: j = 0, i = j + 1
CollideCall ==
  /\ pc \in Resting
  /\ ops < MaxOps
  /\ pc' = "collide"
  /\ j' = 0
  /\ i' = 1
  /\ start' = Snapshot
  /\ examined' = <<>>
  /\ last' = NoPair
  /\ ops' = ops + 1
  /\ UNCHANGED <<sphereVars, clothVars, adds, lastAdd>>

\* one pass of the inner loop's body, lines 189-225, and its i++
CollidePair ==
  /\ pc = "collide"
  /\ j < sphereCount
  /\ i < sphereCount
  /\ \E b \in {SpherePair(j, i)} :
     \E r \in SphereStep(b) :
     \E hit \in {SpheresTouch(b.pj, b.pi, b.radj, b.radi)} :
       /\ position' = [position EXCEPT ![i] = r.pi, ![j] = r.pj]
       /\ velocity' = [velocity EXCEPT ![j] = r.vj, ![i] = r.vi]
       /\ rotation' = [rotation EXCEPT ![j] = r.rj, ![i] = r.ri]
       /\ examined' = Append(examined, <<j, i, hit>>)
       /\ last' = [kind |-> "spheres", j |-> j, i |-> i, applied |-> hit,
                   before |-> b, after |-> r]
  /\ i' = i + 1
  /\ UNCHANGED <<sphereCount, capacity, _radius, acceleration, mass, clothVars,
                 pc, j, start, adds, ops, lastAdd>>

\* the inner loop ends: j++, i = j + 1
CollideNextJ ==
  /\ pc = "collide"
  /\ j < sphereCount
  /\ i >= sphereCount
  /\ j' = j + 1
  /\ i' = j + 2
  /\ UNCHANGED <<sphereVars, clothVars, pc, start, examined, last, adds, ops, lastAdd>>

\* the outer loop ends: the call returns
CollideReturn ==
  /\ pc = "collide"
  /\ j >= sphereCount
  /\ pc' = "collided"
  /\ UNCHANGED <<sphereVars, clothVars, j, i, start, examined, last, adds, ops, lastAdd>>

(***************************************************************************)
(* The cloth overload of Spheres::collide: the response of sphere j and    *)
(* cloth particle i.  b holds the sphere (pj, vj, rj, mj, radj) and the    *)
(* particle (pi, vi, mi).                                                  *)
(***************************************************************************)
\* the test of line 137
ClothTouch(pj, pi, radj) == QLeq(Norm(VSub(pi, pj)), radj)

\* v1_after and v2_after of lines 142-143
VAfterCloth(v1, v2, m1, m2) ==
  VFl(VDivS(VAdd(VScale(v1, m1), VScale(v2, m2)), QAdd(m1, m2)))

\* lines 142-143
ClothImpulse(b, n, v1, v2) ==
  Rebound(b, n, v1, v2, VAfterCloth(v1, v2, b.mj, b.mi),
          VAfterCloth(v1, v2, b.mj, b.mi))

\* lines 139-140
ClothAlong(b, n) ==
  ClothImpulse(b, n, VFl(VScale(n, Dot(n, b.vj))), VFl(VScale(n, Dot(n, b.vi))))

\* lines 159-165: the sphere takes rotate_direction_1, the particle
\* rotate_friction_2 (a particle has no rotation here: ri is not used)
ClothSpun(b, f, rotate_friction_2) ==
  [n |-> f.n,
   penetration |-> Fl(QSub(b.radj, QAbs(Norm(VSub(b.pi, b.pj))))),
   vj |-> Push(f.vj, f.rotate_direction_1, b.mj),
   vi |-> Push(f.vi, rotate_friction_2, b.mi),
   rj |-> Spin(b.rj, f.n, VAdd(f.move_friction_1, f.rotate_direction_1), b.mj, b.radj),
   ri |-> VZero]

\* line 158
ClothTurned(b, f) ==
  ClothSpun(b, f, VFl(VScale(VScale(f.rotate_direction_1, f.force), frictionCoef)))

\* lines 138-165: the velocities of the sphere and the particle and the
\* rotation of the sphere after the response, with the normal n and the
\* penetration
ClothResponse(b) ==
  ClothTurned(b, ClothAlong(b, VFl(Normalized(VSub(b.pi, b.pj)))))

\* lines 137-169: the outcomes of the if for a sphere and a particle
ClothStep(b) ==
  IF ClothTouch(b.pj, b.pi, b.radj) THEN Outcomes(b, ClothResponse(b))
  ELSE {Unmoved(b)}

\* sphere a and cloth particle c
ClothPair(a, c) ==
  [pj |-> position[a], pi |-> clothPosition[c], vj |-> velocity[a],
   vi |-> clothVelocity[c], rj |-> rotation[a], mj |-> mass[a],
   mi |-> clothMass[c], radj |-> _radius[a]]

\* the call: j = 0, i = 0
ClothCall ==
  /\ pc \in Resting
  /\ ops < MaxOps
  /\ pc' = "cloth"
  /\ j' = 0
  /\ i' = 0
  /\ start' = Snapshot
  /\ examined' = <<>>
  /\ last' = NoPair
  /\ ops' = ops + 1
  /\ UNCHANGED <<sphereVars, clothVars, adds, lastAdd>>

\* one pass of the inner loop's body, lines 137-169, and its i++
ClothPairStep ==
  /\ pc = "cloth"
  /\ j < sphereCount
  /\ i < ClothCount
  /\ \E b \in {ClothPair(j, i)} :
     \E r \in ClothStep(b) :
     \E hit \in {ClothTouch(b.pj, b.pi, b.radj)} :
       /\ position' = [position EXCEPT ![j] = r.pj]
       /\ velocity' = [velocity EXCEPT ![j] = r.vj]
       /\ rotation' = [rotation EXCEPT ![j] = r.rj]
       /\ clothPosition' = [clothPosition EXCEPT ![i] = r.pi]
       /\ clothVelocity' = [clothVelocity EXCEPT ![i] = r.vi]
       /\ examined' = Append(examined, <<j, i, hit>>)
       /\ last' = [kind |-> "cloth", j |-> j, i |-> i, applied |-> hit,
                   before |-> b, after |-> r]
  /\ i' = i + 1
  /\ UNCHANGED <<sphereCount, capacity, _radius, acceleration, mass, clothMass,
                 pc, j, start, adds, ops, lastAdd>>

\* the inner loop ends: j++, i = 0
ClothNextJ ==
  /\ pc = "cloth"
  /\ j < sphereCount
  /\ i >= ClothCount
  /\ j' = j + 1
  /\ i' = 0
  /\ UNCHANGED <<sphereVars, clothVars, pc, start, examined, last, adds, ops, lastAdd>>

\* the outer loop ends: the call returns
ClothReturn ==
  /\ pc = "cloth"
  /\ j >= sphereCount
  /\ pc' = "clothed"
  /\ UNCHANGED <<sphereVars, clothVars, j, i, start, examined, last, adds, ops, lastAdd>>

(***************************************************************************)
(* Spheres::addSphere and the constructor.                                 *)
(***************************************************************************)
\* Particles::resize and std::vector::resize: n slots, the old ones kept
Resized(f, n, fresh) == [k \in 0..(n - 1) |-> IF k \in DOMAIN f THEN f[k] ELSE fresh]

\* the size of the std::vector _radius
RadiusSize == Cardinality(DOMAIN _radius)

\* a capacity that grows by one slot
GrownByOne(count, cap) == IF count = cap THEN count + 1 ELSE cap

\* lines 57-59: the capacity addSphere leaves
GrownCapacity(count, cap) == IF count = cap THEN count * 2 ELSE cap

\* line 67
SphereMass(size) == QMul(QMul(QMul(sphereDensity, size), size), size)

\* the line the spheres of a run lie on, a unit vector
Dir == <<One, Zero, Zero, Zero>>

\* the point at k along Dir
At(k) == VScale(Dir, k)

\* the arguments addSphere is called with
AddPositions == {At(Zero), At(Q(3, 1))}

AddSizes == {Zero, One}

\* lines 56-71
AddSphere ==
  /\ pc \in Resting
  /\ ops < MaxOps
  /\ \E p \in AddPositions, size \in AddSizes :
       LET cap == GrownCapacity(sphereCount, capacity)
           rsz == IF sphereCount = capacity THEN sphereCount * 2 ELSE RadiusSize
           rad == Resized(_radius, rsz, Zero)
           pos == Resized(position, cap, VZero)
           vel == Resized(velocity, cap, VZero)
           acc == Resized(acceleration, cap, VZero)
           rot == Resized(rotation, cap, VZero)
           mas == Resized(mass, cap, One)
       IN  /\ capacity' = cap
           /\ _radius' = [rad EXCEPT ![sphereCount] = size]
           /\ position' = [pos EXCEPT ![sphereCount] = p]
           /\ velocity' = [vel EXCEPT ![sphereCount] = VZero]
           /\ acceleration' = [acc EXCEPT ![sphereCount] = VZero]
           /\ rotation' = rot
           /\ mass' = [mas EXCEPT ![sphereCount] = SphereMass(size)]
           /\ lastAdd' = [kind |-> "add", index |-> sphereCount,
                          countBefore |-> sphereCount, capacityBefore |-> capacity,
                          capacityAfter |-> cap, radiusSize |-> rsz]
  /\ sphereCount' = sphereCount + 1
  /\ adds' = adds + 1
  /\ ops' = ops + 1
  /\ pc' = "idle"
  /\ UNCHANGED <<clothVars, j, i, start, examined, last>>

\* the cloth a run collides with: particle k lies at k + 7 / 2 along Dir
\* and moves against Dir
ClothAtRest ==
  /\ clothPosition = [k \in 0..(ClothCount - 1) |-> At(Q(2 * k + 7, 2))]
  /\ clothVelocity = [k \in 0..(ClothCount - 1) |-> VNeg(Dir)]
  /\ clothMass = [k \in 0..(ClothCount - 1) |-> One]

NoCall ==
  /\ pc = "idle"
  /\ j = 0
  /\ i = 0
  /\ examined = <<>>
  /\ last = NoPair
  /\ lastAdd = NoPair

\* line 73: Shape(1, 1), sphereCount(0), _radius(1, 0.0f)
Init ==
  /\ sphereCount = 0
  /\ capacity = 1
  /\ _radius = [k \in 0..0 |-> Zero]
  /\ position = [k \in 0..0 |-> VZero]
  /\ velocity = [k \in 0..0 |-> VZero]
  /\ acceleration = [k \in 0..0 |-> VZero]
  /\ rotation = [k \in 0..0 |-> VZero]
  /\ mass = [k \in 0..0 |-> One]
  /\ ClothAtRest
  /\ NoCall
  /\ start = Snapshot
  /\ adds = 0
  /\ ops = 0

Next ==
  \/ AddSphere
  \/ CollideCall
  \/ CollidePair
  \/ CollideNextJ
  \/ CollideReturn
  \/ ClothCall
  \/ ClothPairStep
  \/ ClothNextJ
  \/ ClothReturn

Spec == Init /\ [][Next]_vars

(***************************************************************************)
(* A scene: the spheres as one simulation step may hand them to collide(), *)
(* n spheres added by addSphere and then moved by the integrator.          *)
(***************************************************************************)
RECURSIVE CapacityFor(_, _)
\* the capacity n addSphere calls leave, starting from c
CapacityFor(n, c) == IF n <= c THEN c ELSE CapacityFor(n, 2 * c)

\* where along Dir a sphere may lie, and its radius
SceneAt == {Zero, Q(2, 1), Q(21, 4)}

SceneRadius == {One, Q(2, 1)}

\* the speeds along Dir: neighbours close in, or all drift alike
SceneMotion == {"closing", "drifting"}

SceneSpeed(motion, k) ==
  IF motion = "drifting" \/ k % 2 = 0 THEN One ELSE Q(-1, 1)

\* the rotation of the one sphere that rotates
SceneSpin == <<Zero, Zero, One, Zero>>

\* n spheres, sphere k at at[k] with radius rad[k]; sphere spin rotates
\* (none does when spin = n)
Scene(n, at, rad, motion, spin) ==
  LET cap == CapacityFor(n, 1)
  IN  /\ sphereCount = n
      /\ capacity = cap
      /\ _radius = [k \in 0..(cap - 1) |-> IF k < n THEN rad[k] ELSE Zero]
      /\ position = [k \in 0..(cap - 1) |-> IF k < n THEN At(at[k]) ELSE VZero]
      /\ velocity = [k \in 0..(cap - 1) |->
                       IF k < n THEN VScale(Dir, SceneSpeed(motion, k)) ELSE VZero]
      /\ acceleration = [k \in 0..(cap - 1) |-> VZero]
      /\ rotation = [k \in 0..(cap - 1) |-> IF k = spin /\ k < n THEN SceneSpin ELSE VZero]
      /\ mass = [k \in 0..(cap - 1) |-> IF k < n THEN SphereMass(rad[k]) ELSE One]

\* the scenes: the spheres lie in the order of their indices, no sphere is
\* larger than the one before it, and the first sphere rotates or none does
InitScene ==
  /\ \E n \in 0..MaxSpheres :
       \E at \in [0..(n - 1) -> SceneAt], rad \in [0..(n - 1) -> SceneRadius],
          motion \in SceneMotion, spin \in {0, n} :
         /\ \A k \in 0..(n - 2) : QLeq(at[k], at[k + 1]) /\ QLeq(rad[k + 1], rad[k])
         /\ Scene(n, at, rad, motion, spin)
         /\ adds = n
  /\ NoCall
  /\ start = Snapshot
  /\ ops = MaxOps - 1

InitCollide ==
  /\ InitScene
  /\ ClothAtRest

NextCollide ==
  \/ CollideCall
  \/ CollidePair
  \/ CollideNextJ
  \/ CollideReturn

SpecCollide == InitCollide /\ [][NextCollide]_vars

(***************************************************************************)
(* A scene with a cloth: the cloth overload is called once.                *)
(***************************************************************************)
\* where along Dir the first cloth particle may lie; particle k lies
\* ClothGap * k further
ClothAt == {Q(1, 2), Q(5, 2)}

ClothGap == Q(8, 1)

\* the speed of the cloth particles along Dir
ClothSpeed == {Zero, Q(-1, 1)}

InitCloth ==
  /\ InitScene
  /\ \E c \in ClothAt, w \in ClothSpeed :
       /\ clothPosition =
            [k \in 0..(ClothCount - 1) |-> At(QAdd(c, QMul(ClothGap, <<k, 1>>)))]
       /\ clothVelocity = [k \in 0..(ClothCount - 1) |-> VScale(Dir, w)]
  /\ clothMass = [k \in 0..(ClothCount - 1) |-> One]

NextCloth ==
  \/ ClothCall
  \/ ClothPairStep
  \/ ClothNextJ
  \/ ClothReturn

SpecCloth == InitCloth /\ [][NextCloth]_vars

(***************************************************************************)
(* The storage of the spheres (Spec).                                      *)
(***************************************************************************)
\* C10: the storage grows by doubling and never overflows.  From a freshly
\* constructed Spheres, after n addSphere calls sphereCount is n; addSphere
\* writes at an index below the particle capacity and below the size of the
\* radius array; the capacity changes only in an addSphere call that finds
\* sphereCount equal to the capacity, and is then twice what it was; the
\* size of the radius array is the particle capacity.
C10_StorageDoubles ==
  /\ sphereCount = adds
  /\ RadiusSize = capacity
  /\ DOMAIN position = 0..(capacity - 1)
  /\ DOMAIN mass = 0..(capacity - 1)
  /\ IF lastAdd.kind = "add"
     THEN /\ capacity = lastAdd.capacityAfter
          /\ lastAdd.index = adds - 1
          /\ lastAdd.index < lastAdd.capacityAfter
          /\ lastAdd.index < lastAdd.radiusSize
          /\ lastAdd.capacityAfter # lastAdd.capacityBefore =>
               /\ lastAdd.countBefore = lastAdd.capacityBefore
               /\ lastAdd.capacityAfter = 2 * lastAdd.capacityBefore
     ELSE capacity = 1 /\ adds = 0

\* an addSphere call has found two spheres in a storage of two and has left
\* a storage of four
C10_Doubled ==
  /\ lastAdd.kind = "add"
  /\ lastAdd.countBefore = 2
  /\ lastAdd.capacityBefore = 2
  /\ capacity = 4
  /\ sphereCount = 3

\* C6: every sphere has a radius above 0 and the mass
\* sphereDensity * radius^3, whatever calls were made.
C6_RadiusPositive ==
  \A k \in 0..(sphereCount - 1) :
    /\ QLt(Zero, _radius[k])
    /\ mass[k] = SphereMass(_radius[k])

(***************************************************************************)
(* The pairs collide() examines (SpecCollide).                             *)
(***************************************************************************)
\* the unordered pairs of distinct spheres, the lower index first
UnorderedPairs == {<<a, c>> \in (0..(sphereCount - 1)) \X (0..(sphereCount - 1)) : a < c}

\* the pairs examined so far
ExaminedPairs == {<<examined[k][1], examined[k][2]>> : k \in 1..Len(examined)}

\* the centers of the bodies b are no further apart than the sum of the
\* radii: the squared distance against the squared sum
WithinReach(b) ==
  LET d == VSub(b.pi, b.pj)
      reach == QAdd(b.radj, b.radi)
  IN  QLeq(Dot(d, d), QMul(reach, reach))

\* a bound on the steps a running call has left: each pass of the outer loop
\* takes at most sphereCount + 1 steps
StepsLeft ==
  IF pc = "collide"
  THEN (sphereCount - j) * (sphereCount + 2) + (sphereCount + 1 - i) + 1
  ELSE 0

\* C7: collide() terminates, having examined every unordered pair of
\* distinct spheres exactly once (the lower index first, no sphere with
\* itself), and it applies the response to a pair if and only if the
\* distance of the centers is at most the sum of the radii when the pair is
\* examined.  It terminates: each step of a running call lowers the bound
\* StepsLeft on the steps it has left, and a call that has no pair to
\* examine can end the inner loop or return.
C7_EveryPairOnce ==
  /\ [](pc = "collided" =>
         /\ ExaminedPairs = UnorderedPairs
         /\ Len(examined) = Cardinality(UnorderedPairs))
  /\ [](last.kind = "spheres" =>
         /\ last.j < last.i
         /\ last.applied <=> WithinReach(last.before))
  /\ [](pc = "collide" =>
         /\ StepsLeft > 0
         /\ (j < sphereCount /\ i < sphereCount) \/ ENABLED (CollideNextJ \/ CollideReturn))
  /\ [][pc = "collide" => StepsLeft' < StepsLeft]_vars

\* a call on three spheres has returned: the first pair it examined was
\* touching exactly and got the response, and another pair was out of reach
C7_Returned ==
  /\ pc = "collided"
  /\ sphereCount = 3
  /\ examined[1][3]
  /\ Norm(VSub(start.position[1], start.position[0]))
       = QAdd(start.radius[0], start.radius[1])
  /\ \E k \in 1..Len(examined) : ~examined[k][3]

(***************************************************************************)
(* What a call of collide() changes (SpecCollide).                         *)
(***************************************************************************)
\* the spheres of the pairs that got the response so far
HandledSpheres ==
  UNION {{examined[k][1], examined[k][2]} : k \in {m \in 1..Len(examined) : examined[m][3]}}

\* sphere k is where, and moves and rotates as, it did when the call began
SameAsAtStart(k) ==
  /\ position[k] = start.position[k]
  /\ velocity[k] = start.velocity[k]
  /\ rotation[k] = start.rotation[k]

\* the call has changed no mass, no radius and not the number of spheres
SameSpheres ==
  /\ mass = start.mass
  /\ _radius = start.radius
  /\ sphereCount = start.count

\* when the call began, sphere k was further from every other sphere than
\* the sum of the two radii
ApartAtStart(k) ==
  \A m \in (0..(start.count - 1)) \ {k} :
    QLt(QAdd(start.radius[k], start.radius[m]),
        Norm(VSub(start.position[m], start.position[k])))

Tolerance == Q(1, 100)

Near(x, y) == QLeq(QAbs(QSub(x, y)), Tolerance)

VNear(a, b) == \A k \in 1..4 : Near(a[k], b[k])

RECURSIVE MomentumUpTo(_, _, _)
\* the sum of m[k] * v[k] over the spheres below n
MomentumUpTo(n, m, v) ==
  IF n = 0 THEN VZero
  ELSE VAdd(MomentumUpTo(n - 1, m, v), VScale(v[n - 1], m[n - 1]))

\* C1: the sum over all spheres of mass * velocity when a call of collide()
\* returns equals the sum when the call began.
C1_MomentumConserved ==
  pc = "collided" =>
    VNear(MomentumUpTo(sphereCount, mass, velocity),
          MomentumUpTo(start.count, start.mass, start.velocity))

Positive(x) == IF QLt(Zero, x) THEN x ELSE Zero

\* the overlap depth max(0, ra + rb - distance) of two spheres
OverlapDepth(pa, pb, ra, rb) == Positive(QSub(QAdd(ra, rb), Norm(VSub(pb, pa))))

\* C2: for every pair of spheres, the overlap depth when a call of
\* collide() returns is not greater than the overlap depth of that pair
\* when the call began.
C2_NoDeeperOverlap ==
  pc = "collided" =>
    \A a \in 0..(sphereCount - 1), c \in 0..(sphereCount - 1) :
      a < c =>
        QLeq(OverlapDepth(position[a], position[c], _radius[a], _radius[c]),
             OverlapDepth(start.position[a], start.position[c],
                          start.radius[a], start.radius[c]))

\* the velocity of body i relative to body j along the unit normal n
RelativeNormalVelocity(n, vj, vi) == Dot(n, VSub(vi, vj))

\* the unit vector from body j to body i of the bodies b
UnitNormal(b) == Normalized(VSub(b.pi, b.pj))

\* C3: when collide() has handled a pair of spheres in contact, their
\* relative velocity along the unit normal from sphere j to sphere i is
\* -0.8 times what it was before the pair was handled.
C3_RestitutionEightTenths ==
  last.kind = "spheres" /\ last.applied =>
    Near(RelativeNormalVelocity(UnitNormal(last.before), last.after.vj, last.after.vi),
         QMul(Q(-4, 5),
              RelativeNormalVelocity(UnitNormal(last.before), last.before.vj,
                                     last.before.vi)))

\* C4: when the cloth overload has handled a sphere and a cloth particle no
\* further from its center than its radius, the velocities of the two have
\* the same component along the unit normal from the sphere to the
\* particle.
C4_ClothInelastic ==
  last.kind = "cloth" /\ last.applied =>
    Near(RelativeNormalVelocity(UnitNormal(last.before), last.after.vj, last.after.vi),
         Zero)

\* the call began with two spheres of equal mass and radius that do not
\* rotate, lie apart along Dir and close in on each other at speed u
HeadOnAtStart(u) ==
  /\ start.count = 2
  /\ start.mass[0] = start.mass[1]
  /\ start.radius[0] = start.radius[1]
  /\ start.rotation[0] = VZero
  /\ start.rotation[1] = VZero
  /\ start.position[0] # start.position[1]
  /\ start.velocity[0] = VScale(Dir, u)
  /\ start.velocity[1] = VScale(Dir, QNeg(u))

\* C5: after a symmetric head-on collision (equal mass, equal radius, no
\* rotation, velocities u and -u toward each other along the line of the
\* centers) the velocities are negatives of each other, each points away
\* from the other sphere, and the speed is 0.8 * u.
C5_HeadOnSymmetric ==
  pc = "collided" /\ HeadOnAtStart(One) /\ examined = <<<<0, 1, TRUE>>>> =>
    /\ VNear(velocity[0], VNeg(velocity[1]))
    /\ VNear(velocity[0], VScale(Dir, Q(-4, 5)))
    /\ VNear(velocity[1], VScale(Dir, Q(4, 5)))

\* C8: when collide() handles a pair with distinct centers and penetration
\* p, sphere i is moved by 0.15 * p along the unit normal from j to i and
\* sphere j by 0.15 * p the other way: the distance of the centers grows by
\* 0.30 * p and their midpoint stays.
C8_PushOut ==
  last.kind = "spheres" /\ last.applied /\ last.before.pi # last.before.pj =>
    LET b == last.before
        p == QSub(QAdd(b.radj, b.radi), Norm(VSub(b.pi, b.pj)))
        push == VScale(UnitNormal(b), QMul(Q(3, 20), p))
    IN  /\ VNear(last.after.pi, VAdd(b.pi, push))
        /\ VNear(last.after.pj, VSub(b.pj, push))
        /\ Near(Norm(VSub(last.after.pi, last.after.pj)),
                QAdd(Norm(VSub(b.pi, b.pj)), QMul(Q(3, 10), p)))
        /\ VNear(VAdd(last.after.pi, last.after.pj), VAdd(b.pi, b.pj))

=============================================================================
